---------------------------- MODULE Spec2Model ----------------------------
(***************************************************************************)
(* The AG-UI streaming endpoint of src/agui/main.py: one asynchronous      *)
(* generator (event_generator) per request, resumed by the response        *)
(* writer chunk by chunk on a single cooperative event loop.  A state of   *)
(* the model is the position of every run's generator, its closure         *)
(* variables (emitted_events, the list iterator of the drain loop, the     *)
(* ResearchState, the workflow result) and the chunks written to each      *)
(* client so far.                                                          *)
(***************************************************************************)
EXTENDS Naturals, Sequences, FiniteSets

\* The concurrent requests that are modelled.
Runs == {"A", "B"}

\* No generator holds the event loop.
NoRun == "none"

\* Most calls of the event emitter the workflow of one run makes.
MaxEmits == 2

\* The request bodies the clients send (RunAgentInput): the identity tokens
\* and the conversation; the last message is the query.
Requests ==
    { [thread_id |-> "t1", run_id |-> "r1",
       messages |-> <<[role |-> "user", content |-> "q1"]>>],
      [thread_id |-> "t1", run_id |-> "r2",
       messages |-> <<[role |-> "user", content |-> "q0"],
                      [role |-> "user", content |-> "q2"]>>] }

\* The report texts the workflow can produce.
Texts == {"report a", "report b"}

\* str(uuid.uuid4()) in the generator of run r: a token no other call returns.
uuid4(r) == <<"uuid", r>>

NoUuid == <<>>

NoInput == [thread_id |-> "", run_id |-> "", messages |-> <<>>]

VARIABLES
    pc,           \* pc[r]: where run r's generator stands
    input,        \* input[r]: input_data of the request
    message_id,   \* message_id[r]: the uuid of the run's text message
    out,          \* out[r]: the chunks yielded to r's StreamingResponse, in order
    sink,         \* sink[r]: the list emitted_events of r's closure
    idx,          \* idx[r]: the index of the list iterator of the running for loop
    in_progress,  \* in_progress[r]: the progress flag of r's ResearchState
    result,       \* result[r]: what graph.invoke returned
    appended,     \* appended[r]: every chunk ever passed to r's event_emitter, in order
    running       \* the run whose generator executes on the event loop, or NoRun

vars == <<pc, input, message_id, out, sink, idx, in_progress,
          result, appended, running>>

-----------------------------------------------------------------------------
(* Events and their encoding *)

\* EventEncoder.encode: the event as one self-delimited SSE record.
encode(event) == <<"data: ", event, "\n\n">>

\* The event of an encoded chunk.
EventOf(chunk) == chunk[2]
TypeOf(chunk) == EventOf(chunk).type

RunStartedEvent(thread_id, run_id) ==
    [type |-> "RUN_STARTED", thread_id |-> thread_id, run_id |-> run_id]

RunFinishedEvent(thread_id, run_id) ==
    [type |-> "RUN_FINISHED", thread_id |-> thread_id, run_id |-> run_id]

TextMessageStartEvent(mid, role) ==
    [type |-> "TEXT_MESSAGE_START", message_id |-> mid, role |-> role]

TextMessageContentEvent(mid, delta) ==
    [type |-> "TEXT_MESSAGE_CONTENT", message_id |-> mid, delta |-> delta]

TextMessageEndEvent(mid) ==
    [type |-> "TEXT_MESSAGE_END", message_id |-> mid]

\* The snapshot of a ResearchState: its identity, query and progress flag.
StateSnapshotEvent(mid, query, flag) ==
    [type |-> "STATE_SNAPSHOT", message_id |-> mid,
     snapshot |-> [query |-> query, in_progress |-> flag]]

\* AIMessage(content=report)
AIMessage(content) == [content |-> content]

\* What graph.invoke can return: the list research_node returns, or a list
\* with nothing in it.
Results == {<<>>} \cup { <<AIMessage(t)>> : t \in Texts }

\* query = input_data.messages[-1].content
QueryOf(req) == req.messages[Len(req.messages)].content

\* event_emitter that drops a chunk equal to the one before it.
event_emitter_Dedup(emitted_events, encoded_event) ==
    IF Len(emitted_events) > 0 /\ emitted_events[Len(emitted_events)] = encoded_event
      THEN emitted_events
      ELSE Append(emitted_events, encoded_event)

\* event_emitter: the closure over emitted_events.
event_emitter(emitted_events, encoded_event) ==
    Append(emitted_events, encoded_event)

\* ResearchState.emit_snapshot of run r while its flag is `flag`: the chunk
\* handed to the event emitter.
SnapshotChunk(r, flag) ==
    encode(StateSnapshotEvent(message_id[r], QueryOf(input[r]), flag))

-----------------------------------------------------------------------------
(* Positions of the generator *)

\* Suspended at a yield: the chunk has been handed to the response writer.
YieldPoints == {"y_run_started", "y_drain1", "y_drain2", "y_text_start",
                "y_text_content", "y_text_end", "y_run_finished"}

\* The generator has ended: it returned, raised, or was closed.
Terminal == {"done", "failed", "cancelled"}

PcValues == {"idle", "created", "for1", "clear1", "invoke", "workflow",
             "for2", "clear2"} \cup YieldPoints \cup Terminal

Init ==
    /\ pc = [r \in Runs |-> "idle"]
    /\ input = [r \in Runs |-> NoInput]
    /\ message_id = [r \in Runs |-> NoUuid]
    /\ out = [r \in Runs |-> <<>>]
    /\ sink = [r \in Runs |-> <<>>]
    /\ idx = [r \in Runs |-> 0]
    /\ in_progress = [r \in Runs |-> FALSE]
    /\ result = [r \in Runs |-> <<>>]
    /\ appended = [r \in Runs |-> <<>>]
    /\ running = NoRun

\* The generator of run r yields `chunk` and suspends at `at`.
Yield(r, chunk, at) ==
    /\ out' = [out EXCEPT ![r] = Append(@, chunk)]
    /\ pc' = [pc EXCEPT ![r] = at]
    /\ running' = NoRun

\* The generator of run r is resumed from the yield `at` (the event loop is free).
Resumed(r, at) == pc[r] = at /\ running = NoRun

\* The generator of run r ends at `how`: its frame goes, and with it the
\* closure's list, the iterator, the ResearchState and the result.
End(r, how) ==
    /\ pc' = [pc EXCEPT ![r] = how]
    /\ sink' = [sink EXCEPT ![r] = <<>>]
    /\ idx' = [idx EXCEPT ![r] = 0]
    /\ in_progress' = [in_progress EXCEPT ![r] = FALSE]
    /\ result' = [result EXCEPT ![r] = <<>>]
    /\ running' = NoRun

-----------------------------------------------------------------------------
(* The endpoint and the generator, segment by segment *)

\* POST /: the endpoint creates the generator and returns the StreamingResponse.
Request(r, req) ==
    /\ pc[r] = "idle"
    /\ running = NoRun
    /\ input' = [input EXCEPT ![r] = req]
    /\ pc' = [pc EXCEPT ![r] = "created"]
    /\ UNCHANGED <<message_id, out, sink, idx, in_progress, result,
                   appended, running>>

\* First resumption: the encoder, the query, the message id, yield RunStarted.
Start(r) ==
    /\ Resumed(r, "created")
    /\ message_id' = [message_id EXCEPT ![r] = uuid4(r)]
    /\ Yield(r, encode(RunStartedEvent(input[r].thread_id, input[r].run_id)),
             "y_run_started")
    /\ UNCHANGED <<input, sink, idx, in_progress, result, appended>>

\* emitted_events = [], the ResearchState, its initial snapshot, and the
\* iterator of the first drain loop.
Setup(r) ==
    /\ Resumed(r, "y_run_started")
    /\ running' = r
    /\ in_progress' = [in_progress EXCEPT ![r] = FALSE]
    /\ sink' = [sink EXCEPT ![r] = event_emitter(<<>>, SnapshotChunk(r, FALSE))]
    /\ appended' = [appended EXCEPT ![r] = Append(@, SnapshotChunk(r, FALSE))]
    /\ idx' = [idx EXCEPT ![r] = 0]
    /\ pc' = [pc EXCEPT ![r] = "for1"]
    /\ UNCHANGED <<input, message_id, out, result>>

\* One step of `for event in emitted_events: yield event` in drain k: the list
\* iterator hands out the item at its index if the list has one there, else
\* the loop ends.
ForStep(r, loop, yielded, ended) ==
    /\ \/ pc[r] = loop /\ running = r
       \/ Resumed(r, yielded)
    /\ IF idx[r] < Len(sink[r])
         THEN /\ Yield(r, sink[r][idx[r] + 1], yielded)
              /\ idx' = [idx EXCEPT ![r] = @ + 1]
         ELSE /\ pc' = [pc EXCEPT ![r] = ended]
              /\ running' = r
              /\ UNCHANGED <<out, idx>>
    /\ UNCHANGED <<input, message_id, sink, in_progress, result, appended>>

Drain1(r) == ForStep(r, "for1", "y_drain1", "clear1")

\* Drain2 with the loop left out: the list is cleared without being read.
Drain2_Skipped(r) ==
    /\ pc[r] = "for2" /\ running = r
    /\ pc' = [pc EXCEPT ![r] = "clear2"]
    /\ UNCHANGED <<input, message_id, out, sink, idx, in_progress, result,
                   appended, running>>

Drain2(r) == ForStep(r, "for2", "y_drain2", "clear2")

\* Clear1 with the clear forgotten: the list keeps what the loop handed out.
Clear1_KeepsList(r) ==
    /\ pc[r] = "clear1" /\ running = r
    /\ idx' = [idx EXCEPT ![r] = 0]
    /\ pc' = [pc EXCEPT ![r] = "invoke"]
    /\ UNCHANGED <<input, message_id, out, sink, in_progress, result,
                   appended, running>>

\* emitted_events.clear() after the first loop (its iterator is dropped), then
\* build_research_graph.
Clear1(r) ==
    /\ pc[r] = "clear1" /\ running = r
    /\ sink' = [sink EXCEPT ![r] = <<>>]
    /\ idx' = [idx EXCEPT ![r] = 0]
    /\ pc' = [pc EXCEPT ![r] = "invoke"]
    /\ UNCHANGED <<input, message_id, out, in_progress, result,
                   appended, running>>

\* WfStart with the call awaited: the generator gives up the event loop.
WfStart_Awaited(r) ==
    /\ pc[r] = "invoke" /\ running = r
    /\ in_progress' = [in_progress EXCEPT ![r] = TRUE]
    /\ pc' = [pc EXCEPT ![r] = "workflow"]
    /\ running' = NoRun
    /\ UNCHANGED <<input, message_id, out, sink, idx, result, appended>>

\* graph.invoke enters research_node: state.set_in_progress(True).
WfStart(r) ==
    /\ pc[r] = "invoke" /\ running = r
    /\ in_progress' = [in_progress EXCEPT ![r] = TRUE]
    /\ pc' = [pc EXCEPT ![r] = "workflow"]
    /\ UNCHANGED <<input, message_id, out, sink, idx, result,
                   appended, running>>

\* web_search / create_detailed_report call state.emit_snapshot().
WfEmitSnapshot(r) ==
    /\ pc[r] = "workflow" /\ running = r
    /\ Len(appended[r]) < 1 + MaxEmits
    /\ sink' = [sink EXCEPT ![r] = event_emitter(@, SnapshotChunk(r, in_progress[r]))]
    /\ appended' = [appended EXCEPT ![r] = Append(@, SnapshotChunk(r, in_progress[r]))]
    /\ UNCHANGED <<pc, input, message_id, out, idx, in_progress, result,
                   running>>

\* The workflow ends its processing phase: state.set_in_progress(False).
WfSetInProgress(r) ==
    /\ pc[r] = "workflow" /\ running = r
    /\ in_progress[r]
    /\ in_progress' = [in_progress EXCEPT ![r] = FALSE]
    /\ UNCHANGED <<pc, input, message_id, out, sink, idx, result,
                   appended, running>>

\* graph.invoke returns `res`; the iterator of the second drain loop.
WfReturn(r, res) ==
    /\ pc[r] = "workflow" /\ running = r
    /\ result' = [result EXCEPT ![r] = res]
    /\ idx' = [idx EXCEPT ![r] = 0]
    /\ pc' = [pc EXCEPT ![r] = "for2"]
    /\ UNCHANGED <<input, message_id, out, sink, in_progress,
                   appended, running>>

\* WfRaise with a finally block that writes what the sink holds.
WfRaise_Flushes(r) ==
    /\ pc[r] = "workflow" /\ running = r
    /\ out' = [out EXCEPT ![r] = @ \o sink[r]]
    /\ End(r, "failed")
    /\ UNCHANGED <<input, message_id, appended>>

\* WfRaise with a retry: the failed call sends the run back to its first drain.
WfRaise_Retry(r) ==
    /\ pc[r] = "workflow" /\ running = r
    /\ pc' = [pc EXCEPT ![r] = "clear1"]
    /\ UNCHANGED <<input, message_id, out, sink, idx, in_progress, result,
                   appended, running>>

\* graph.invoke raises: the exception leaves the generator, which has no handler.
WfRaise(r) ==
    /\ pc[r] = "workflow" /\ running = r
    /\ End(r, "failed")
    /\ UNCHANGED <<input, message_id, out, appended>>

\* Clear2 with TextMessageStart yielded before the result is looked at.
Clear2_StartFirst(r) ==
    /\ pc[r] = "clear2" /\ running = r
    /\ IF Len(result[r]) = 0
         THEN /\ End(r, "failed")
              /\ out' = [out EXCEPT ![r] =
                    Append(@, encode(TextMessageStartEvent(message_id[r], "assistant")))]
         ELSE /\ sink' = [sink EXCEPT ![r] = <<>>]
              /\ idx' = [idx EXCEPT ![r] = 0]
              /\ Yield(r, encode(TextMessageStartEvent(message_id[r], "assistant")),
                       "y_text_start")
              /\ UNCHANGED <<in_progress, result>>
    /\ UNCHANGED <<input, message_id, appended>>

\* emitted_events.clear() after the second loop, result[0].content, and the
\* yield of TextMessageStart; result[0] of an empty list raises IndexError.
Clear2(r) ==
    /\ pc[r] = "clear2" /\ running = r
    /\ IF Len(result[r]) = 0
         THEN /\ End(r, "failed")
              /\ out' = out
         ELSE /\ sink' = [sink EXCEPT ![r] = <<>>]
              /\ idx' = [idx EXCEPT ![r] = 0]
              /\ Yield(r, encode(TextMessageStartEvent(message_id[r], "assistant")),
                       "y_text_start")
              /\ UNCHANGED <<in_progress, result>>
    /\ UNCHANGED <<input, message_id, appended>>

\* ReportContent with the query taken for the report.
ReportContent_Query(r) == QueryOf(input[r])

\* report_content = result[0].content
ReportContent(r) == result[r][1].content

\* EmitTextContent with the query as the delta instead of the report.
EmitTextContent_Query(r) ==
    /\ Resumed(r, "y_text_start")
    /\ Yield(r, encode(TextMessageContentEvent(message_id[r], QueryOf(input[r]))),
             "y_text_content")
    /\ UNCHANGED <<input, message_id, sink, idx, in_progress, result,
                   appended>>

\* Resumed after TextMessageStart: yield the content event with the report.
EmitTextContent(r) ==
    /\ Resumed(r, "y_text_start")
    /\ Yield(r, encode(TextMessageContentEvent(message_id[r], ReportContent(r))),
             "y_text_content")
    /\ UNCHANGED <<input, message_id, sink, idx, in_progress, result,
                   appended>>

\* EmitTextEnd with the start event built a second time instead of the end.
EmitTextEnd_StartAgain(r) ==
    /\ Resumed(r, "y_text_content")
    /\ Yield(r, encode(TextMessageStartEvent(message_id[r], "assistant")),
             "y_text_end")
    /\ UNCHANGED <<input, message_id, sink, idx, in_progress, result,
                   appended>>

\* Resumed after the content event: yield TextMessageEnd.
EmitTextEnd(r) ==
    /\ Resumed(r, "y_text_content")
    /\ Yield(r, encode(TextMessageEndEvent(message_id[r])), "y_text_end")
    /\ UNCHANGED <<input, message_id, sink, idx, in_progress, result,
                   appended>>

\* Resumed after TextMessageEnd: yield RunFinished.
EmitRunFinished(r) ==
    /\ Resumed(r, "y_text_end")
    /\ Yield(r, encode(RunFinishedEvent(input[r].thread_id, input[r].run_id)),
             "y_run_finished")
    /\ UNCHANGED <<input, message_id, sink, idx, in_progress, result,
                   appended>>

\* The generator is resumed after its last yield and returns: the stream closes.
Finish(r) ==
    /\ Resumed(r, "y_run_finished")
    /\ End(r, "done")
    /\ UNCHANGED <<input, message_id, out, appended>>

\* Disconnect with a closing event written as the generator is closed.
Disconnect_Closing(r) ==
    /\ pc[r] \in YieldPoints
    /\ running = NoRun
    /\ End(r, "cancelled")
    /\ out' = [out EXCEPT ![r] =
                 Append(@, encode(RunFinishedEvent(input[r].thread_id, input[r].run_id)))]
    /\ UNCHANGED <<input, message_id, appended>>

\* The client goes away while the generator is suspended: the response task is
\* cancelled and the generator is closed at its yield, never resumed.
Disconnect(r) ==
    /\ pc[r] \in YieldPoints
    /\ running = NoRun
    /\ End(r, "cancelled")
    /\ UNCHANGED <<input, message_id, out, appended>>

Next ==
    \E r \in Runs :
        \/ \E req \in Requests : Request(r, req)
        \/ Start(r)
        \/ Setup(r)
        \/ Drain1(r)
        \/ Clear1(r)
        \/ WfStart(r)
        \/ WfEmitSnapshot(r)
        \/ WfSetInProgress(r)
        \/ \E res \in Results : WfReturn(r, res)
        \/ WfRaise(r)
        \/ Drain2(r)
        \/ Clear2(r)
        \/ EmitTextContent(r)
        \/ EmitTextEnd(r)
        \/ EmitRunFinished(r)
        \/ Finish(r)
        \/ Disconnect(r)

Spec == Init /\ [][Next]_vars

\* What the event loop and the client that keeps reading make of run r: the
\* response writer resumes the generator after every chunk, and the workflow
\* call goes on until it returns or raises.
Progress(r) ==
    \/ Start(r)
    \/ Setup(r)
    \/ Drain1(r)
    \/ Clear1(r)
    \/ WfStart(r)
    \/ WfEmitSnapshot(r)
    \/ WfSetInProgress(r)
    \/ \E res \in Results : WfReturn(r, res)
    \/ WfRaise(r)
    \/ Drain2(r)
    \/ Clear2(r)
    \/ EmitTextContent(r)
    \/ EmitTextEnd(r)
    \/ EmitRunFinished(r)
    \/ Finish(r)

\* The steps of the endpoint while no client goes away.
NextReading ==
    \E r \in Runs :
        \/ \E req \in Requests : Request(r, req)
        \/ Progress(r)

\* The endpoint on an event loop that runs every ready task, with clients
\* that read on and workflow calls that end.
FairSpec ==
    Init /\ [][NextReading]_vars /\ \A r \in Runs : WF_vars(Progress(r))

\* A context that runs beside the event loop calls the event emitter of run r.
\* The emitter is reachable only through the ResearchState, which is handed
\* out when the graph is built, so such a caller exists once the workflow has
\* run: it falls between any two steps of the second drain, whichever
\* generator occupies the loop.
EmitterThread(r) ==
    /\ pc[r] \in {"for2", "y_drain2", "clear2"}
    /\ Len(appended[r]) < 1 + MaxEmits
    /\ sink' = [sink EXCEPT ![r] = event_emitter(@, SnapshotChunk(r, in_progress[r]))]
    /\ appended' = [appended EXCEPT ![r] = Append(@, SnapshotChunk(r, in_progress[r]))]
    /\ UNCHANGED <<pc, input, message_id, out, idx, in_progress, result, running>>

NextThreads == Next \/ \E r \in Runs : EmitterThread(r)

\* The endpoint with emitters called from outside the event loop.
SpecThreads == Init /\ [][NextThreads]_vars

TypeOK ==
    /\ pc \in [Runs -> PcValues]
    /\ running \in Runs \cup {NoRun}
    /\ \A r \in Runs : idx[r] <= Len(sink[r])

-----------------------------------------------------------------------------
(* What the client of run r has received *)

Types(chunks) == [i \in DOMAIN chunks |-> TypeOf(chunks[i])]

Positions(chunks, type) == { i \in DOMAIN chunks : TypeOf(chunks[i]) = type }

IsSnapshot(chunk) == TypeOf(chunk) = "STATE_SNAPSHOT"

Snapshots(chunks) == SelectSeq(chunks, IsSnapshot)

\* The chunks of the sink that the running drain loop has not handed out yet.
Pending(r) ==
    IF pc[r] \in {"for1", "y_drain1", "clear1", "for2", "y_drain2", "clear2"}
      THEN SubSeq(sink[r], idx[r] + 1, Len(sink[r]))
      ELSE sink[r]

\* The server has ended the stream of run r: the generator returned or raised.
StreamEnded(r) == pc[r] \in {"done", "failed"}

TextYields == {"y_text_start", "y_text_content", "y_text_end", "y_run_finished"}

\* The chunks the workflow of run r appended: all but the initial snapshot.
WorkflowEmits(r) == Len(appended[r]) - 1

\* The positions in `chunks` of the text-message events of one kind for `mid`.
TextPositions(chunks, type, mid) ==
    { i \in DOMAIN chunks :
        TypeOf(chunks[i]) = type /\ EventOf(chunks[i]).message_id = mid }

MessageIds == { uuid4(r) : r \in Runs }

\* n content events.
Contents(n) == [i \in 1..n |-> "TEXT_MESSAGE_CONTENT"]

-----------------------------------------------------------------------------
(* Run boundaries *)

\* C1: in every run whose stream the server has ended, the first chunk
\* written is RunStarted, the last is RunFinished, and neither kind appears at
\* any other position.
C1_RunBoundaries ==
    \A r \in Runs :
        StreamEnded(r) =>
            /\ Len(out[r]) >= 1
            /\ Positions(out[r], "RUN_STARTED") = {1}
            /\ Positions(out[r], "RUN_FINISHED") = {Len(out[r])}

\* C7: a run whose workflow call raised, or returned a result with no item in
\* it, still has RunFinished as the last chunk of its stream.
C7_FailureStillFinishes ==
    \A r \in Runs :
        pc[r] = "failed" =>
            /\ Len(out[r]) >= 1
            /\ TypeOf(out[r][Len(out[r])]) = "RUN_FINISHED"

-----------------------------------------------------------------------------
(* Text-message bracketing *)

\* The bracketing of the text-message events for `mid` in the stream of run r.
Bracketed(r, mid) ==
    LET S == TextPositions(out[r], "TEXT_MESSAGE_START", mid)
        C == TextPositions(out[r], "TEXT_MESSAGE_CONTENT", mid)
        E == TextPositions(out[r], "TEXT_MESSAGE_END", mid)
    IN  /\ Cardinality(S) <= 1
        /\ Cardinality(E) <= 1
        /\ \A c \in C : (\E b \in S : b < c) /\ (\A e \in E : c < e)
        /\ \A e \in E : \E b \in S : b < e
        /\ (pc[r] \in {"y_run_finished", "done", "failed"} /\ S \cup C \cup E # {})
              => Cardinality(S) = 1 /\ Cardinality(E) = 1

\* C2: in every stream and for every message id in it there is at most one
\* TextMessageStart and one TextMessageEnd at any time, exactly one of each
\* once the stream is complete, and every TextMessageContent for the id comes
\* strictly after its Start and strictly before its End.
C2_TextMessageBracketing ==
    \A r \in Runs : \A mid \in MessageIds : Bracketed(r, mid)

\* A completed stream that carries a content event.
C2_Witness ==
    \E r \in Runs :
        /\ pc[r] = "done"
        /\ TextPositions(out[r], "TEXT_MESSAGE_CONTENT", message_id[r]) # {}

-----------------------------------------------------------------------------
(* The order of a whole stream *)

\* C3: the stream of every run the server has ended is RunStarted, then every
\* chunk appended to the sink in append order, then TextMessageStart, one or
\* more TextMessageContent, TextMessageEnd, RunFinished.
C3_ExactOrder ==
    \A r \in Runs :
        StreamEnded(r) =>
            /\ Snapshots(out[r]) = appended[r]
            /\ \E n \in 1..Len(out[r]) :
                  Types(out[r]) =
                      <<"RUN_STARTED">> \o Types(appended[r])
                        \o <<"TEXT_MESSAGE_START">> \o Contents(n)
                        \o <<"TEXT_MESSAGE_END", "RUN_FINISHED">>

-----------------------------------------------------------------------------
(* Draining the sink *)

\* Every chunk appended so far has been written exactly once, in order, or is
\* still waiting in the sink.
Conserved(r) == Snapshots(out[r]) \o Pending(r) = appended[r]

\* Run r stands right after a drain: the loop is over and the list is cleared.
Drained(r) == pc[r] \in {"invoke"} \cup TextYields

\* C4: while a run lives, the chunks written so far followed by the chunks
\* still waiting are exactly the chunks appended, in append order (nothing is
\* lost, reordered or written twice), and right after a drain the sink is
\* empty and everything appended has been written.
C4_DrainExhaustiveOrdered ==
    \A r \in Runs :
        /\ pc[r] \notin Terminal => Conserved(r)
        /\ Drained(r) => sink[r] = <<>> /\ Snapshots(out[r]) = appended[r]
        /\ pc[r] = "done" => Snapshots(out[r]) = appended[r]

\* The second drain has forwarded two chunks that differ, after the first
\* drain forwarded one.
C4_Witness ==
    \E r \in Runs :
        /\ pc[r] = "y_text_start"
        /\ Len(appended[r]) = 3
        /\ appended[r][2] # appended[r][3]
        /\ Snapshots(out[r]) = appended[r]

\* C5: with the emitter called from beside the event loop, every chunk
\* appended while the second drain is under way is written exactly once, by
\* that drain, or still waits in the sink: none is dropped by the clear.
C5_NoAppendLost ==
    \A r \in Runs :
        pc[r] \in {"for2", "y_drain2", "clear2"} \cup TextYields => Conserved(r)

-----------------------------------------------------------------------------
(* Concurrent runs *)

\* The chunk was produced for run r: it carries r's identity.
OwnedBy(chunk, r) ==
    IF TypeOf(chunk) \in {"RUN_STARTED", "RUN_FINISHED"}
      THEN /\ EventOf(chunk).thread_id = input[r].thread_id
           /\ EventOf(chunk).run_id = input[r].run_id
      ELSE EventOf(chunk).message_id = uuid4(r)

\* No chunk of another run is in the sink or in the stream of run r.
Isolated(r) ==
    /\ \A i \in DOMAIN out[r] : OwnedBy(out[r][i], r)
    /\ \A i \in DOMAIN sink[r] : OwnedBy(sink[r][i], r)
    /\ \A q \in Runs \ {r} : uuid4(q) # uuid4(r)

\* C6: with two requests interleaved, no chunk of one run is in the sink or
\* the stream of the other, and each stream has the run boundaries of C1 and
\* the bracketing of C2.
C6_IndependentStreams ==
    \A r \in Runs :
        /\ Isolated(r)
        /\ \A mid \in MessageIds : Bracketed(r, mid)
        /\ StreamEnded(r) =>
              /\ Positions(out[r], "RUN_STARTED") = {1}
              /\ Positions(out[r], "RUN_FINISHED") = {Len(out[r])}

\* The part of C6 that is about isolation alone.
IsolationOnly == \A r \in Runs : Isolated(r)

-----------------------------------------------------------------------------
(* The two concrete scenarios *)

\* Run r has yielded its last chunk; the workflow result is still at hand.
AllWritten(r) == pc[r] = "y_run_finished"

\* The four chunks that report the final text of run r and close the run.
ReportChunks(r) ==
    << encode(TextMessageStartEvent(message_id[r], "assistant")),
       encode(TextMessageContentEvent(message_id[r], result[r][1].content)),
       encode(TextMessageEndEvent(message_id[r])),
       encode(RunFinishedEvent(input[r].thread_id, input[r].run_id)) >>

\* C8 as stated: a workflow that appends nothing and returns a text gives the
\* stream RunStarted, TextMessageStart, TextMessageContent, TextMessageEnd,
\* RunFinished, with no StateSnapshot in it.
C8_NoSnapshotAtAll ==
    \A r \in Runs :
        (AllWritten(r) /\ WorkflowEmits(r) = 0) =>
            /\ out[r] = <<encode(RunStartedEvent(input[r].thread_id, input[r].run_id))>>
                          \o ReportChunks(r)
            /\ Positions(out[r], "STATE_SNAPSHOT") = {}

\* C8, amended: a workflow that appends nothing and returns the text T gives
\* the stream RunStarted, the initial StateSnapshot (taken before the workflow,
\* progress flag off), TextMessageStart(role=assistant),
\* TextMessageContent(delta=T), TextMessageEnd, RunFinished: exactly one
\* StateSnapshot, the second chunk.
C8_InitialSnapshotOnly ==
    \A r \in Runs :
        /\ (AllWritten(r) /\ WorkflowEmits(r) = 0) =>
              /\ out[r] = <<encode(RunStartedEvent(input[r].thread_id, input[r].run_id)),
                            SnapshotChunk(r, FALSE)>> \o ReportChunks(r)
              /\ Positions(out[r], "STATE_SNAPSHOT") = {2}
        /\ (pc[r] = "done" /\ WorkflowEmits(r) = 0) =>
              Types(out[r]) = <<"RUN_STARTED", "STATE_SNAPSHOT", "TEXT_MESSAGE_START",
                                "TEXT_MESSAGE_CONTENT", "TEXT_MESSAGE_END",
                                "RUN_FINISHED">>

\* A run whose workflow appended nothing has written everything.
C8_Witness ==
    \E r \in Runs :
        /\ AllWritten(r)
        /\ WorkflowEmits(r) = 0
        /\ result[r] = <<AIMessage("report a")>>

\* C9 as stated: a workflow that calls emit_snapshot once before returning
\* gives the stream RunStarted, StateSnapshot, TextMessageStart,
\* TextMessageContent, TextMessageEnd, RunFinished, with one StateSnapshot.
C9_OneSnapshot ==
    \A r \in Runs :
        (pc[r] \in {"y_run_finished", "done"} /\ WorkflowEmits(r) = 1) =>
            Types(out[r]) = <<"RUN_STARTED", "STATE_SNAPSHOT", "TEXT_MESSAGE_START",
                              "TEXT_MESSAGE_CONTENT", "TEXT_MESSAGE_END",
                              "RUN_FINISHED">>

\* C9, amended: a workflow that calls emit_snapshot once before returning
\* gives the stream RunStarted, StateSnapshot (the initial one), StateSnapshot
\* (the workflow's), TextMessageStart, TextMessageContent, TextMessageEnd,
\* RunFinished: exactly two StateSnapshot events, in append order.
C9_TwoSnapshots ==
    \A r \in Runs :
        (pc[r] \in {"y_run_finished", "done"} /\ WorkflowEmits(r) = 1) =>
            /\ Types(out[r]) = <<"RUN_STARTED", "STATE_SNAPSHOT", "STATE_SNAPSHOT",
                                 "TEXT_MESSAGE_START", "TEXT_MESSAGE_CONTENT",
                                 "TEXT_MESSAGE_END", "RUN_FINISHED">>
            /\ Positions(out[r], "STATE_SNAPSHOT") = {2, 3}
            /\ <<out[r][2], out[r][3]>> = appended[r]

\* A run whose workflow called emit_snapshot once has written everything.
C9_Witness ==
    \E r \in Runs :
        /\ pc[r] = "done"
        /\ WorkflowEmits(r) = 1
        /\ Len(out[r]) = 7

-----------------------------------------------------------------------------
(* The orchestrator's states *)

\* The state of the orchestrator at a position of the generator:
\* 0 INIT, 1 STARTED (RunStarted written, first drain), 2 RUNNING (workflow
\* call, second drain), 3 REPORTING (final text at hand, closing events),
\* 4 FINISHED (stream closed).  A generator that raised or was closed has
\* left the machine.
PhaseOf(at) ==
    CASE at \in {"idle", "created"} -> 0
      [] at \in {"y_run_started", "for1", "y_drain1", "clear1"} -> 1
      [] at \in {"invoke", "workflow", "for2", "y_drain2", "clear2"} -> 2
      [] at \in TextYields -> 3
      [] at = "done" -> 4
      [] OTHER -> 5

Aborted == {"failed", "cancelled"}

\* C10: every step keeps a run in its state or moves it to the next one of
\* INIT, STARTED, RUNNING, REPORTING, FINISHED (none skipped, none entered
\* again), and once the generator has ended nothing is written and its
\* position does not change.
C10_PhaseOrder ==
    [][ \A r \in Runs :
          /\ (pc[r] \notin Aborted /\ pc'[r] \notin Aborted) =>
                \/ PhaseOf(pc'[r]) = PhaseOf(pc[r])
                \/ PhaseOf(pc'[r]) = PhaseOf(pc[r]) + 1
          /\ pc[r] \in Terminal => pc'[r] = pc[r] /\ out'[r] = out[r] ]_vars

\* A run has gone through all five states.
C10_Witness ==
    \E r \in Runs : pc[r] = "done" /\ Len(out[r]) >= 6

-----------------------------------------------------------------------------
(* The final text *)

ContentPositions(r) == Positions(out[r], "TEXT_MESSAGE_CONTENT")

\* C11: a run in REPORTING has written no content event before the yield of
\* the content event and exactly one from then on, whose delta is the whole
\* content of the first item of the workflow result; no stream ever carries
\* two, and a finished run carries exactly one.
C11_OneContentWholeText ==
    \A r \in Runs :
        /\ Cardinality(ContentPositions(r)) <= 1
        /\ pc[r] = "y_text_start" => ContentPositions(r) = {}
        /\ pc[r] \in {"y_text_content", "y_text_end", "y_run_finished"} =>
              /\ Cardinality(ContentPositions(r)) = 1
              /\ \A i \in ContentPositions(r) :
                    /\ EventOf(out[r][i]).delta = result[r][1].content
                    /\ EventOf(out[r][i]).delta \in Texts
                    /\ EventOf(out[r][i]).message_id = message_id[r]
        /\ pc[r] = "done" => Cardinality(ContentPositions(r)) = 1

\* A run has written its content event, with the second of the texts.
C11_Witness ==
    \E r \in Runs :
        /\ pc[r] = "y_text_content"
        /\ result[r] = <<AIMessage("report b")>>

-----------------------------------------------------------------------------
(* Snapshot emission *)

Last(chunks) == chunks[Len(chunks)]

\* A step in which the event emitter of run r is called once more.
EmitStep(r) == Len(appended'[r]) = Len(appended[r]) + 1

\* C12: every call of emit_snapshot, the initial one and each of the
\* workflow's, appends exactly one chunk to the tail of the sink and leaves
\* the progress flag as it was; when the state is still the one the previous
\* snapshot shows, the chunk appended equals the previous one.
C12_EmitSnapshotAppendsOne ==
    [][ \A r \in Runs :
          EmitStep(r) =>
             /\ Len(sink'[r]) = Len(sink[r]) + 1
             /\ SubSeq(sink'[r], 1, Len(sink[r])) = sink[r]
             /\ Last(sink'[r]) = Last(appended'[r])
             /\ in_progress'[r] = in_progress[r]
             /\ EventOf(Last(sink'[r])).snapshot.in_progress = in_progress[r]
             /\ (Len(appended[r]) > 0
                   /\ EventOf(Last(appended[r])).snapshot.in_progress = in_progress[r])
                  => Last(sink'[r]) = Last(appended[r]) ]_vars

\* The workflow has called emit_snapshot twice with no state change between.
C12_Witness ==
    \E r \in Runs :
        /\ pc[r] = "workflow"
        /\ Len(sink[r]) = 2
        /\ sink[r][1] = sink[r][2]

-----------------------------------------------------------------------------
(* Client disconnect *)

\* C13: the step that closes the generator of a disconnected client writes
\* nothing, and nothing is written to that stream afterwards: the stream
\* stays as it was when the client went away, with no closing event added.
C13_NothingAfterDisconnect ==
    [][ \A r \in Runs :
          pc'[r] = "cancelled" => out'[r] = out[r] /\ sink'[r] = <<>> ]_vars

\* A client went away between TextMessageStart and its content: the stream
\* ends with the start event.
C13_Witness ==
    \E r \in Runs :
        /\ pc[r] = "cancelled"
        /\ TypeOf(Last(out[r])) = "TEXT_MESSAGE_START"

-----------------------------------------------------------------------------
(* Termination *)

\* The stream of run r is closed: the generator returned or raised.
Closed(r) == pc[r] \in {"done", "failed"}

\* C14: on a fair event loop, with the client reading on and the workflow
\* call returning or raising, every run whose generator has been created
\* reaches a state in which its stream is closed, the run whose workflow
\* fails included.
C14_StreamEventuallyClosed ==
    \A r \in Runs : (pc[r] = "created") ~> Closed(r)

\* The stream of a run whose workflow failed is closed.
C14_Witness ==
    \E r \in Runs : pc[r] = "failed" /\ Len(appended[r]) = 2

-----------------------------------------------------------------------------
(* Buffering and the workflow call *)

\* The workflow call of run r is under way: invoked and not yet returned.
InWorkflowCall(r) == pc[r] \in {"invoke", "workflow"}

\* C15: the sink is empty when the workflow is invoked; while the call is
\* under way the chunks it appends stay in the sink and the client has
\* received the initial snapshot only; when TextMessageStart has been yielded
\* the sink is empty again and every chunk appended has been written, each
\* before the start event.
C15_BufferedUntilReturn ==
    \A r \in Runs :
        /\ pc[r] = "invoke" => sink[r] = <<>>
        /\ InWorkflowCall(r) =>
              /\ Snapshots(out[r]) = SubSeq(appended[r], 1, 1)
              /\ sink[r] = SubSeq(appended[r], 2, Len(appended[r]))
        /\ pc[r] = "y_text_start" =>
              /\ sink[r] = <<>>
              /\ Snapshots(out[r]) = appended[r]
              /\ \A i \in Positions(out[r], "STATE_SNAPSHOT") : i < Len(out[r])
              /\ TypeOf(Last(out[r])) = "TEXT_MESSAGE_START"

\* The workflow has appended two chunks and neither has been written.
C15_Witness ==
    \E r \in Runs :
        /\ pc[r] = "workflow"
        /\ Len(sink[r]) = 2
        /\ Len(out[r]) = 2

\* Positions at which a generator does not occupy the event loop.
Parked == YieldPoints \cup {"idle", "created"} \cup Terminal

\* C16: whenever no generator occupies the event loop every run stands at a
\* yield (or has not started, or has ended); and while the workflow call of a
\* run is under way that run occupies the loop, writes nothing, and no other
\* run takes a step.
C16_NoSuspensionInWorkflow ==
    [][ /\ running = NoRun => \A r \in Runs : pc[r] \in Parked
        /\ \A r \in Runs :
              InWorkflowCall(r) =>
                 /\ running = r
                 /\ out'[r] = out[r]
                 /\ \A q \in Runs \ {r} :
                       /\ pc'[q] = pc[q]
                       /\ out'[q] = out[q]
                       /\ sink'[q] = sink[q] ]_vars

\* A workflow call is under way while the other run waits at a yield.
C16_Witness ==
    \E r \in Runs : \E q \in Runs \ {r} :
        /\ pc[r] = "workflow"
        /\ Len(sink[r]) >= 1
        /\ pc[q] \in YieldPoints

-----------------------------------------------------------------------------
(* Aborted runs *)

IsPrefix(a, b) == Len(a) <= Len(b) /\ SubSeq(b, 1, Len(a)) = a

\* The kinds of the canonical stream of run r, given what has been appended.
CanonicalTypes(r) ==
    <<"RUN_STARTED">> \o [i \in 1..Len(appended[r]) |-> "STATE_SNAPSHOT"]
      \o <<"TEXT_MESSAGE_START", "TEXT_MESSAGE_CONTENT", "TEXT_MESSAGE_END",
           "RUN_FINISHED">>

\* C17: in every state the chunks written to a client are a prefix of
\* RunStarted, the appended chunks in append order, TextMessageStart,
\* TextMessageContent, TextMessageEnd, RunFinished, whether the run goes
\* on, has failed or was cut by a disconnect.
C17_AlwaysCanonicalPrefix ==
    \A r \in Runs :
        /\ IsPrefix(Types(out[r]), CanonicalTypes(r))
        /\ IsPrefix(Snapshots(out[r]), appended[r])

\* An aborted run that had written three chunks or more.
C17_Witness ==
    \E r \in Runs : pc[r] \in Aborted /\ Len(out[r]) >= 3

\* The positions of the text-message events in the stream of run r.
TextEvents(r) ==
    Positions(out[r], "TEXT_MESSAGE_START")
      \cup Positions(out[r], "TEXT_MESSAGE_CONTENT")
      \cup Positions(out[r], "TEXT_MESSAGE_END")

\* C18: a stream carries a text-message event only if the workflow call has
\* returned a result with an item in it; the stream of a run that failed,
\* by a raise or by an unusable result, carries none.
C18_NoTextEventOnFailure ==
    \A r \in Runs :
        /\ pc[r] = "failed" => TextEvents(r) = {}
        /\ TextEvents(r) # {} => pc[r] \in TextYields \cup {"done", "cancelled"}
        /\ pc[r] \in TextYields => Len(result[r]) = 1 /\ TextEvents(r) # {}

\* A run failed on an unusable result after its second drain wrote a chunk.
C18_Witness ==
    \E r \in Runs : pc[r] = "failed" /\ Len(out[r]) = 3

\* C19: the step in which the workflow call raises writes nothing, and the
\* stream is then RunStarted and the initial snapshot, whatever the workflow
\* appended; the step in which the result proves unusable writes nothing
\* either, and by then every chunk appended has been written; a failed run
\* writes nothing afterwards.
C19_FailureOutput ==
    [][ \A r \in Runs :
          /\ (pc[r] = "workflow" /\ pc'[r] = "failed") =>
                /\ out'[r] = out[r]
                /\ out[r] = <<encode(RunStartedEvent(input[r].thread_id, input[r].run_id)),
                              appended[r][1]>>
          /\ (pc[r] = "clear2" /\ pc'[r] = "failed") =>
                /\ out'[r] = out[r]
                /\ Snapshots(out[r]) = appended[r]
                /\ Len(out[r]) = 1 + Len(appended[r])
          /\ pc[r] = "failed" => out'[r] = out[r] ]_vars

\* The workflow raised after appending two chunks: neither was written.
C19_Witness ==
    \E r \in Runs :
        /\ pc[r] = "failed"
        /\ Len(appended[r]) = 3
        /\ Len(out[r]) = 2

=============================================================================
